---- MODULE Spec2Model ----
(***************************************************************************)
(* A model of buildbot's GitHub webhook handler                            *)
(* (master/buildbot/www/hooks/github.py, class GitHubEventHandler).        *)
(*                                                                         *)
(* Encoding of Python values:                                              *)
(*   - a dict is a record; a key the dict does not hold is a field the     *)
(*     record does not have (Has / Get below);                             *)
(*   - None is an absent field (a header that was not sent, a constructor  *)
(*     argument left at None);                                             *)
(*   - a string that the code takes apart (the signature header, a ref, a  *)
(*     commit message) is a sequence of tokens, and the code's split /     *)
(*     regular expression is computed over that sequence;                  *)
(*   - the raw request body is a text: a JSON document (a tree together    *)
(*     with a formatting variant), a form-encoded document, or garbage.    *)
(***************************************************************************)
EXTENDS Integers, Sequences, FiniteSets, TLC

VARIABLES
    cfg,                 \* the constructor's arguments
    hstate,              \* "new", "ready" (constructed), "ctor_failed"
    github_api_service,  \* self._github_api_service: 0 is None, n > 0 a client
    clients,             \* number of enrichment clients constructed so far
    pc,                  \* per request: position of process() / its handler
    req,                 \* per request: the request being processed
    loc,                 \* per request: locals of a suspended handler
    out,                 \* per request: what process() delivered
    trace                \* per request: the steps process() performed, in order

vars == <<cfg, hstate, github_api_service, clients, pc, req, loc, out, trace>>

----------------------------------------------------------------------------
(* Bounds *)

MaxSigLen == 3      \* longest signature header, in tokens
MaxCommits == 2     \* longest commit list of a push payload
MaxDetails == 2     \* most commits in the details of a pull request
NumReqs == 2        \* concurrent requests on one handler

----------------------------------------------------------------------------
(* Python helpers *)

Has(d, k) == k \in DOMAIN d

\* dict.get(k, default)
Get(d, k, default) == IF Has(d, k) THEN d[k] ELSE default

\* d1.update(d2): keys of d2 overwrite those of d1
Update(d1, d2) ==
    [k \in (DOMAIN d1) \cup (DOMAIN d2) |-> IF k \in DOMAIN d2 THEN d2[k] ELSE d1[k]]

----------------------------------------------------------------------------
(* Strings as token sequences *)

Lit(s) == [lit |-> s]

\* hmac.new(key, msg, sha1).hexdigest(): the digest is a token that names
\* the key and the message it was computed from (an ideal MAC: two digests
\* are equal exactly when key and message are).
HmacHexdigest(key, msg) == [hex |-> <<key, msg>>]

EqTok == Lit("=")

\* Index of the first "=" of s at or after i, or 0
RECURSIVE FindEq(_, _)
FindEq(s, i) ==
    IF i > Len(s) THEN 0
    ELSE IF s[i] = EqTok THEN i
    ELSE FindEq(s, i + 1)

\* str.split('='): the parts between the "=" tokens ("".split('=') is [""])
RECURSIVE Split(_)
Split(s) ==
    LET i == FindEq(s, 1) IN
    IF i = 0 THEN <<s>>
    ELSE <<SubSeq(s, 1, i - 1)>> \o Split(SubSeq(s, i + 1, Len(s)))

----------------------------------------------------------------------------
(* The request *)

\* A request is a record: content (the raw body, a text), and the headers
\* that were sent: sig (X-Hub-Signature), event (X-GitHub-Event),
\* ctype (Content-Type).  request.getHeader of a header that was not sent
\* is None.

CT_JSON == "application/json"
CT_FORM == "application/x-www-form-urlencoded"

EmptyDict == [k \in {} |-> 0]

\* The JSON value null, None once decoded
JsonNull == [null |-> TRUE]

\* json.loads: a JSON text yields its tree whatever its formatting; any
\* other text (a form-encoded body, garbage) is not JSON.
JsonLoads(text) ==
    IF Has(text, "json")
    THEN [err |-> "", value |-> text.json]
    ELSE [err |-> "JSONDecodeError", value |-> EmptyDict]

\* request.args: the fields of a form-encoded body
RequestArgs(rq) == IF Has(rq.content, "form") THEN rq.content.form ELSE EmptyDict

\* bool(self._secret)
SecretSet(c) == Has(c, "secret") /\ c.secret # ""

\* bool(signature)
SignatureSet(rq) == Has(rq, "sig") /\ rq.sig # <<>>

\* Mutant: the strict test of line 107 is missing
CheckSignature_NoStrict(c, rq) ==
    IF SecretSet(c) /\ SignatureSet(rq)
    THEN LET parts == Split(rq.sig) IN
         IF Len(parts) # 2 THEN "Wrong signature format"
         ELSE IF parts[1] # <<Lit("sha1")>> THEN "Unknown hash type"
         ELSE IF <<HmacHexdigest(c.secret, rq.content)>> # parts[2] THEN "Hash mismatch"
         ELSE ""
    ELSE ""

\* Mutant: the hash type of the header is not looked at
CheckSignature_AnyHash(c, rq) ==
    IF ~SignatureSet(rq) /\ c.strict
    THEN "Request has no required signature"
    ELSE IF SecretSet(c) /\ SignatureSet(rq)
    THEN LET parts == Split(rq.sig) IN
         IF Len(parts) # 2 THEN "Wrong signature format"
         ELSE IF <<HmacHexdigest(c.secret, rq.content)>> # parts[2] THEN "Hash mismatch"
         ELSE ""
    ELSE ""

\* Mutant: a configured secret alone makes the signature required
CheckSignature_SecretRequiresSig(c, rq) ==
    IF ~SignatureSet(rq) /\ (c.strict \/ SecretSet(c))
    THEN "Request has no required signature"
    ELSE IF SecretSet(c) /\ SignatureSet(rq)
    THEN LET parts == Split(rq.sig) IN
         IF Len(parts) # 2 THEN "Wrong signature format"
         ELSE IF parts[1] # <<Lit("sha1")>> THEN "Unknown hash type"
         ELSE IF <<HmacHexdigest(c.secret, rq.content)>> # parts[2] THEN "Hash mismatch"
         ELSE ""
    ELSE ""

\* _get_payload, lines 104-126: "" when the request passes, else the
\* message of the ValueError raised
CheckSignature(c, rq) ==
    IF ~SignatureSet(rq) /\ c.strict
    THEN "Request has no required signature"
    ELSE IF SecretSet(c) /\ SignatureSet(rq)
    THEN LET parts == Split(rq.sig) IN
         IF Len(parts) # 2 THEN "Wrong signature format"
         ELSE IF parts[1] # <<Lit("sha1")>> THEN "Unknown hash type"
         ELSE IF <<HmacHexdigest(c.secret, rq.content)>> # parts[2] THEN "Hash mismatch"
         ELSE ""
    ELSE ""

\* Mutant: the body of a form-encoded request is parsed as a whole
DecodePayload_FormBody(rq) ==
    IF Has(rq, "ctype") /\ rq.ctype \in {CT_JSON, CT_FORM}
    THEN JsonLoads(rq.content)
    ELSE [err |-> "Unknown content type", value |-> EmptyDict]

\* _get_payload, lines 128-135
DecodePayload(rq) ==
    IF Has(rq, "ctype") /\ rq.ctype = CT_JSON
    THEN JsonLoads(rq.content)
    ELSE IF Has(rq, "ctype") /\ rq.ctype = CT_FORM
    THEN IF Has(RequestArgs(rq), "payload")
         THEN JsonLoads(RequestArgs(rq).payload)
         ELSE [err |-> "KeyError", value |-> EmptyDict]
    ELSE [err |-> "Unknown content type", value |-> EmptyDict]

\* Mutant: the payload is decoded before the signature is checked
GetPayload_DecodeFirst(c, rq) ==
    LET d == DecodePayload(rq) IN
    IF d.err # ""
    THEN [err |-> d.err, value |-> EmptyDict, steps |-> <<"read", "decode">>]
    ELSE LET v == CheckSignature(c, rq) IN
         [err |-> v, value |-> d.value, steps |-> <<"read", "decode", "verify">>]

\* _get_payload: read the body, check the signature, then decode.  steps
\* lists what was executed.
GetPayload(c, rq) ==
    LET v == CheckSignature(c, rq) IN
    IF v # ""
    THEN [err |-> v, value |-> EmptyDict, steps |-> <<"read", "verify">>]
    ELSE LET d == DecodePayload(rq) IN
         [err |-> d.err, value |-> d.value, steps |-> <<"read", "verify", "decode">>]

AuthErrors ==
    {"Request has no required signature", "Wrong signature format",
     "Unknown hash type", "Hash mismatch"}

----------------------------------------------------------------------------
(* Skip patterns *)

\* A pattern is a sequence of elements: [lit |-> t] matches the token t,
\* [star |-> t] matches zero or more tokens t (the regular expression "t*").
Star(t) == [star |-> t]

\* r'\[ *skip *ci *\]' and r'\[ *ci *skip *\]'
DEFAULT_SKIPS_PATTERN ==
    << <<Lit("["), Star(" "), Lit("skip"), Star(" "), Lit("ci"), Star(" "), Lit("]")>>,
       <<Lit("["), Star(" "), Lit("ci"), Star(" "), Lit("skip"), Star(" "), Lit("]")>> >>

\* Does pat[i..] match msg starting at position j?
RECURSIVE MatchAt(_, _, _, _)
MatchAt(pat, i, msg, j) ==
    IF i > Len(pat) THEN TRUE
    ELSE IF Has(pat[i], "star")
    THEN \/ MatchAt(pat, i + 1, msg, j)
         \/ (j <= Len(msg) /\ msg[j] = pat[i].star /\ MatchAt(pat, i, msg, j + 1))
    ELSE j <= Len(msg) /\ msg[j] = pat[i].lit /\ MatchAt(pat, i + 1, msg, j + 1)

\* re.search(pat, msg): a match starting anywhere in msg
ReSearch(pat, msg) == \E j \in 1..(Len(msg) + 1) : MatchAt(pat, 1, msg, j)

\* self.skips after __init__ (lines 63, 68-69)
Skips(c) == IF Has(c, "skips") THEN c.skips ELSE DEFAULT_SKIPS_PATTERN

\* Mutant: only the first pattern is tried
HasSkip_FirstOnly(c, msg) == Skips(c) # <<>> /\ ReSearch(Skips(c)[1], msg)

\* _has_skip
HasSkip(c, msg) == \E k \in 1..Len(Skips(c)) : ReSearch(Skips(c)[k], msg)

----------------------------------------------------------------------------
(* Properties and codebase *)

\* The payload field a white-listed property name stands for
WhitelistField(name) ==
    CASE name = "event" -> "event"
      [] name = "github_distinct" -> "github_distinct"
      [] name = "github.ref" -> "ref"
      [] name = "github.number" -> "number"
      [] name = "github.title" -> "title"
      [] name = "github.event" -> "event"
      [] OTHER -> "<none>"

\* self.github_property_whitelist after __init__ (lines 62, 66-67)
Whitelist(c) == IF Has(c, "github_property_whitelist") THEN c.github_property_whitelist ELSE {}

\* PullRequestMixin.extractProperties: the white-listed fields the payload holds
ExtractProperties(c, payload) ==
    [name \in {n \in Whitelist(c) : Has(payload, WhitelistField(n))}
        |-> payload[WhitelistField(name)]]

\* A callable codebase rule applied to the payload
CallCodebase(fn, payload) ==
    CASE fn = "repo_name" -> payload.repository.name
      [] OTHER -> "codebase"

\* Mutant: without a rule the change gets the codebase None
WithCodebase_NoneField(c, payload, change) ==
    IF ~Has(c, "codebase") THEN Update(change, [codebase |-> "<None>"])
    ELSE IF Has(c.codebase, "fn")
    THEN Update(change, [codebase |-> CallCodebase(c.codebase.fn, payload)])
    ELSE Update(change, [codebase |-> c.codebase.const])

\* lines 315-316 and 241-242: how often the rule is called while n changes
\* are built; only a callable rule is called, once for each change
CodebaseCalls(c, n) == IF Has(c, "codebase") /\ Has(c.codebase, "fn") THEN n ELSE 0

\* lines 315-318 and 241-244: the change with its codebase, when a rule is set
WithCodebase(c, payload, change) ==
    IF ~Has(c, "codebase") THEN change
    ELSE IF Has(c.codebase, "fn")
    THEN Update(change, [codebase |-> CallCodebase(c.codebase.fn, payload)])
    ELSE Update(change, [codebase |-> c.codebase.const])

----------------------------------------------------------------------------
(* Push normalizer *)

NoCategory == "<None>"

\* re.match(r"^refs/(heads|tags)/(.+)$", refname)
RefMatch(ref) ==
    /\ Len(ref) >= 5
    /\ ref[1] = "refs" /\ ref[2] = "/"
    /\ ref[3] \in {"heads", "tags"}
    /\ ref[4] = "/"

RefGroup1(ref) == ref[3]
RefGroup2(ref) == SubSeq(ref, 5, Len(ref))

\* Mutant: the group is compared with "tag", which it never is
Category_Typo(ref) == IF RefGroup1(ref) = "tag" THEN "tag" ELSE NoCategory

\* lines 270-272
Category(ref) == IF RefGroup1(ref) = "tags" THEN "tag" ELSE NoCategory

\* lines 287-289
RECURSIVE CommitFiles(_, _)
CommitFiles(commit, kinds) ==
    IF kinds = <<>> THEN <<>>
    ELSE Get(commit, Head(kinds), <<>>) \o CommitFiles(commit, Tail(kinds))

\* u'{} <{}>'.format(name, email)
FormatAuthor(a) == <<a.name, " <", a.email, ">">>

\* dateutil's parse
DateParse(ts) == [parsed |-> ts]

\* The keys of a commit the loop reads with commit[...]
CommitKeys == {"timestamp", "id", "author", "message", "url"}

CommitOk(commit) == \A k \in CommitKeys : Has(commit, k)

\* Mutant: the computed properties are laid over the white-listed ones
PushChange_ComputedLast(c, payload, commit, branch, category, repo_url, project, event, properties) ==
    WithCodebase(c, payload,
        [author |-> FormatAuthor(commit.author),
         files |-> CommitFiles(commit, <<"added", "modified", "removed">>),
         comments |-> commit.message,
         revision |-> commit.id,
         when_timestamp |-> DateParse(commit.timestamp),
         branch |-> branch,
         revlink |-> commit.url,
         repository |-> repo_url,
         project |-> project,
         properties |-> Update(properties,
                               [github_distinct |-> Get(commit, "distinct", TRUE),
                                event |-> event]),
         category |-> category])

\* lines 295-320: the change of one commit
PushChange(c, payload, commit, branch, category, repo_url, project, event, properties) ==
    WithCodebase(c, payload,
        [author |-> FormatAuthor(commit.author),
         files |-> CommitFiles(commit, <<"added", "modified", "removed">>),
         comments |-> commit.message,
         revision |-> commit.id,
         when_timestamp |-> DateParse(commit.timestamp),
         branch |-> branch,
         revlink |-> commit.url,
         repository |-> repo_url,
         project |-> project,
         properties |-> Update([github_distinct |-> Get(commit, "distinct", TRUE),
                                event |-> event], properties),
         category |-> category])

\* The first commit of the loop that lacks a key the loop reads: lines
\* 291-305 raise KeyError there, the commits before it are gone through
FirstBad(commits) ==
    CHOOSE i \in 1..Len(commits) :
        ~CommitOk(commits[i]) /\ \A j \in 1..(i - 1) : CommitOk(commits[j])

\* Mutant: the created flag is not looked at
PushCommits_IgnoreCreated(payload) == payload.commits

\* lines 283-285: the commits the loop runs over
PushCommits(payload) ==
    IF Get(payload, "created", FALSE) THEN <<payload.head_commit>> ELSE payload.commits

\* Mutant: the skip patterns are tried on every commit of the loop, and a
\* matching commit is left out
ProcessChange_SkipPerCommit(c, payload, repo_url, project, event, properties) ==
    IF ~Has(payload, "ref") THEN [err |-> "KeyError", changes |-> <<>>, calls |-> 0]
    ELSE IF ~RefMatch(payload.ref) THEN [err |-> "", changes |-> <<>>, calls |-> 0]
    ELSE IF Get(payload, "deleted", FALSE) THEN [err |-> "", changes |-> <<>>, calls |-> 0]
    ELSE IF ~Has(payload, "head_commit") THEN [err |-> "KeyError", changes |-> <<>>, calls |-> 0]
    ELSE IF payload.head_commit = JsonNull
    THEN [err |-> "AttributeError", changes |-> <<>>, calls |-> 0]
    ELSE IF HasSkip(c, Get(payload.head_commit, "message", <<>>))
    THEN [err |-> "", changes |-> <<>>, calls |-> 0]
    ELSE IF ~Has(payload, "commits")
    THEN [err |-> "KeyError", changes |-> <<>>, calls |-> 0]
    ELSE LET all == PushCommits(payload) IN
         IF \E i \in 1..Len(all) : ~CommitOk(all[i])
         THEN [err |-> "KeyError", changes |-> <<>>, calls |-> 0]
         ELSE LET commits == SelectSeq(all, LAMBDA x : ~HasSkip(c, x.message)) IN
              [err |-> "",
               calls |-> CodebaseCalls(c, Len(commits)),
               changes |-> [i \in 1..Len(commits) |->
                   PushChange(c, payload, commits[i], RefGroup2(payload.ref),
                              Category(payload.ref), repo_url, project, event,
                              properties)]]

\* _process_change
ProcessChange(c, payload, repo_url, project, event, properties) ==
    IF ~Has(payload, "ref") THEN [err |-> "KeyError", changes |-> <<>>, calls |-> 0]
    ELSE IF ~RefMatch(payload.ref) THEN [err |-> "", changes |-> <<>>, calls |-> 0]
    ELSE IF Get(payload, "deleted", FALSE) THEN [err |-> "", changes |-> <<>>, calls |-> 0]
    ELSE IF ~Has(payload, "head_commit") THEN [err |-> "KeyError", changes |-> <<>>, calls |-> 0]
    ELSE IF payload.head_commit = JsonNull
    THEN [err |-> "AttributeError", changes |-> <<>>, calls |-> 0]
    ELSE IF HasSkip(c, Get(payload.head_commit, "message", <<>>))
    THEN [err |-> "", changes |-> <<>>, calls |-> 0]
    ELSE IF ~Has(payload, "commits")
    THEN [err |-> "KeyError", changes |-> <<>>, calls |-> 0]
    ELSE LET commits == PushCommits(payload) IN
         IF \E i \in 1..Len(commits) : ~CommitOk(commits[i])
         THEN [err |-> "KeyError", changes |-> <<>>,
               calls |-> CodebaseCalls(c, FirstBad(commits) - 1)]
         ELSE [err |-> "",
               calls |-> CodebaseCalls(c, Len(commits)),
               changes |-> [i \in 1..Len(commits) |->
                   PushChange(c, payload, commits[i], RefGroup2(payload.ref),
                              Category(payload.ref), repo_url, project, event,
                              properties)]]

RepositoryOk(payload) ==
    /\ Has(payload, "repository")
    /\ \A k \in {"name", "html_url", "full_name"} : Has(payload.repository, k)

\* handle_push
HandlePush(c, payload, event) ==
    IF ~RepositoryOk(payload) THEN [err |-> "KeyError", changes |-> <<>>, calls |-> 0]
    ELSE ProcessChange(c, payload, payload.repository.html_url,
                       payload.repository.full_name, event,
                       ExtractProperties(c, payload))

----------------------------------------------------------------------------
(* Pull-request normalizer *)

\* None where the code holds a string or None
None == "<None>"

\* bool(s) of a string or None
Truthy(s) == s # None /\ s # ""

PrActions == {"opened", "reopened", "synchronize"}

\* The fields read before the action test (lines 166-171)
PrHeadOk(payload) ==
    /\ Has(payload, "number")
    /\ Has(payload, "pull_request")
    /\ \A k \in {"commits", "title", "body", "head"} : Has(payload.pull_request, k)
    /\ Has(payload.pull_request.head, "sha")

\* The fields read before the enrichment client is asked for (lines 184-186)
PrUserOk(payload) ==
    /\ \A k \in {"user", "base"} : Has(payload.pull_request, k)
    /\ Has(payload.pull_request.user, "login")
    /\ \A k \in {"user", "repo"} : Has(payload.pull_request.base, k)
    /\ Has(payload.pull_request.base.user, "login")
    /\ Has(payload.pull_request.base.repo, "name")

\* The fields read when the change is built (lines 226-231)
PrChangeOk(payload) ==
    /\ \A k \in {"created_at", "_links"} : Has(payload.pull_request, k)
    /\ Has(payload.pull_request._links, "html")
    /\ Has(payload.pull_request._links.html, "href")
    /\ Has(payload, "repository") /\ Has(payload.repository, "html_url")
    /\ Has(payload.pull_request.base.repo, "full_name")

\* Mutant: a payload without an action is taken for one to act on
PrActionOk_MissingPasses(payload) ==
    ~Has(payload, "action") \/ payload.action \in PrActions

\* lines 175-176
PrActionOk(payload) == Has(payload, "action") /\ payload.action \in PrActions

\* 'refs/pull/{}/merge'.format(number)
PrRefname(number) == <<"refs", "/", "pull", "/", number, "/", "merge">>

\* title.strip(): leading and trailing blanks removed
RECURSIVE LStrip(_)
LStrip(t) == IF t # <<>> /\ Head(t) = " " THEN LStrip(Tail(t)) ELSE t

RECURSIVE RStrip(_)
RStrip(t) ==
    IF t # <<>> /\ t[Len(t)] = " " THEN RStrip(SubSeq(t, 1, Len(t) - 1)) ELSE t

Strip(t) == RStrip(LStrip(t))

\* lines 208-209: the non-empty lines of a body (a sequence of lines; a body
\* of None or '' has none), each indented by 46 blanks
BodyLines(body) ==
    LET keep == SelectSeq(body, LAMBDA l : l # "") IN
    [i \in 1..Len(keep) |-> [indent |-> 46, line |-> keep[i]]]

\* Mutant: the author of every commit is collected, an empty one included
RECURSIVE PrLoop_AnyAuthor(_, _, _, _, _, _)
PrLoop_AnyAuthor(c, details, head_sha, user_login, i, acc) ==
    IF i > Len(details) THEN acc
    ELSE LET d == details[i] IN
         IF d.sha = head_sha /\ HasSkip(c, d.message)
         THEN [acc EXCEPT !.skipped = TRUE]
         ELSE PrLoop_AnyAuthor(c, details, head_sha, user_login, i + 1,
                [owners |-> acc.owners \cup {d.author},
                 change_author |-> IF Truthy(d.login) /\ d.login = user_login
                                   THEN d.author ELSE acc.change_author,
                 comments |-> acc.comments
                                \o << [sha |-> d.sha, title |-> Strip(d.title)] >>
                                \o BodyLines(d.body),
                 skipped |-> FALSE])

\* Mutant: a skip marker in any commit of the pull request ends the loop
RECURSIVE PrLoop_AnySha(_, _, _, _, _, _)
PrLoop_AnySha(c, details, head_sha, user_login, i, acc) ==
    IF i > Len(details) THEN acc
    ELSE LET d == details[i] IN
         IF HasSkip(c, d.message)
         THEN [acc EXCEPT !.skipped = TRUE]
         ELSE PrLoop_AnySha(c, details, head_sha, user_login, i + 1,
                [owners |-> IF Truthy(d.author) THEN acc.owners \cup {d.author}
                            ELSE acc.owners,
                 change_author |-> IF Truthy(d.login) /\ d.login = user_login
                                   THEN d.author ELSE acc.change_author,
                 comments |-> acc.comments
                                \o << [sha |-> d.sha, title |-> Strip(d.title)] >>
                                \o BodyLines(d.body),
                 skipped |-> FALSE])

\* lines 197-209: the loop over the commit details, from entry i on.  details
\* is the mapping in its iteration order, a sequence of entries with their
\* sha.  acc holds owners, change_author, _comments and whether the loop
\* returned on a skip.
RECURSIVE PrLoop(_, _, _, _, _, _)
PrLoop(c, details, head_sha, user_login, i, acc) ==
    IF i > Len(details) THEN acc
    ELSE LET d == details[i] IN
         IF d.sha = head_sha /\ HasSkip(c, d.message)
         THEN [acc EXCEPT !.skipped = TRUE]
         ELSE PrLoop(c, details, head_sha, user_login, i + 1,
                [owners |-> IF Truthy(d.author) THEN acc.owners \cup {d.author}
                            ELSE acc.owners,
                 change_author |-> IF Truthy(d.login) /\ d.login = user_login
                                   THEN d.author ELSE acc.change_author,
                 comments |-> acc.comments
                                \o << [sha |-> d.sha, title |-> Strip(d.title)] >>
                                \o BodyLines(d.body),
                 skipped |-> FALSE])

PrLoopInit == [owners |-> {}, change_author |-> None, comments |-> <<>>, skipped |-> FALSE]

\* lines 187-190
PrSummary(payload) ==
    [number |-> payload.number,
     commits |-> payload.pull_request.commits,
     plural |-> payload.pull_request.commits # 1,
     title |-> payload.pull_request.title,
     body |-> payload.pull_request.body]

\* Mutant: the event name is set first and the white-listed properties
\* are laid over it
PrChange_EventFirst(c, payload, event, enriched, files, acc) ==
    LET pr == payload.pull_request
        properties0 == Update([event |-> event], ExtractProperties(c, pr))
        properties == IF acc.owners # {}
                      THEN Update(properties0, [owners |-> acc.owners])
                      ELSE properties0
        comments == <<PrSummary(payload)>>
                    \o (IF acc.comments # <<>>
                        THEN <<"Individual Commit Messages:\n">> \o acc.comments
                        ELSE <<>>)
        change == [revision |-> pr.head.sha,
                   when_timestamp |-> DateParse(pr.created_at),
                   branch |-> PrRefname(payload.number),
                   revlink |-> pr._links.html.href,
                   repository |-> payload.repository.html_url,
                   project |-> pr.base.repo.full_name,
                   category |-> "pull",
                   author |-> IF acc.change_author = None THEN pr.user.login
                              ELSE acc.change_author,
                   comments |-> comments,
                   properties |-> properties]
        change2 == IF enriched THEN Update(change, [files |-> files]) ELSE change
    IN WithCodebase(c, payload, change2)

\* lines 215-246: the change built once enrichment, if any, is over.
\* enriched says whether a client was available; files and details are
\* what its two calls returned.
PrChange(c, payload, event, enriched, files, acc) ==
    LET pr == payload.pull_request
        properties0 == Update(ExtractProperties(c, pr), [event |-> event])
        properties == IF acc.owners # {}
                      THEN Update(properties0, [owners |-> acc.owners])
                      ELSE properties0
        comments == <<PrSummary(payload)>>
                    \o (IF acc.comments # <<>>
                        THEN <<"Individual Commit Messages:\n">> \o acc.comments
                        ELSE <<>>)
        change == [revision |-> pr.head.sha,
                   when_timestamp |-> DateParse(pr.created_at),
                   branch |-> PrRefname(payload.number),
                   revlink |-> pr._links.html.href,
                   repository |-> payload.repository.html_url,
                   project |-> pr.base.repo.full_name,
                   category |-> "pull",
                   author |-> IF acc.change_author = None THEN pr.user.login
                              ELSE acc.change_author,
                   comments |-> comments,
                   properties |-> properties]
        change2 == IF enriched THEN Update(change, [files |-> files]) ELSE change
    IN WithCodebase(c, payload, change2)

\* handle_pull_request from the point where the enrichment, if any, is over
PrFinish(c, payload, event, enriched, files, details) ==
    LET acc == IF enriched
               THEN PrLoop(c, details, payload.pull_request.head.sha,
                           payload.pull_request.user.login, 1, PrLoopInit)
               ELSE PrLoopInit
    IN IF acc.skipped THEN [err |-> "", changes |-> <<>>, calls |-> 0]
       ELSE IF ~PrChangeOk(payload) THEN [err |-> "KeyError", changes |-> <<>>, calls |-> 0]
       ELSE [err |-> "", calls |-> CodebaseCalls(c, 1),
             changes |-> <<PrChange(c, payload, event, enriched, files, acc)>>]

\* handle_pull_request up to the call of get_github_api_service:
\* "return" (with ret), or "enrich" when the client is asked for
PrStart(c, payload) ==
    IF ~PrHeadOk(payload) THEN [next |-> "return", err |-> "KeyError"]
    ELSE IF ~PrActionOk(payload) THEN [next |-> "return", err |-> ""]
    ELSE IF ~PrUserOk(payload) THEN [next |-> "return", err |-> "KeyError"]
    ELSE [next |-> "enrich", err |-> ""]

\* Mutant: one field of an integration is taken for credentials
HasCredentials_AnyOne(c) ==
    \/ Truthy(Get(c, "token", None))
    \/ Truthy(Get(c, "integration_id", None))
    \/ Truthy(Get(c, "private_key", None))
    \/ Truthy(Get(c, "installation_id", None))

\* get_github_api_service, line 339: are there credentials to build a client?
HasCredentials(c) ==
    \/ Truthy(Get(c, "token", None))
    \/ /\ Truthy(Get(c, "integration_id", None))
       /\ Truthy(Get(c, "private_key", None))
       /\ Truthy(Get(c, "installation_id", None))

----------------------------------------------------------------------------
(* process() *)

Reqs == 1..NumReqs

\* The methods handle_<event> of the class
Handlers == {"ping", "push", "pull_request"}

\* __init__, lines 73-75: does the constructor return?
CtorOk(c) == ~(c.strict /\ ~SecretSet(c))

\* Mutant: an event without a handler is not turned away
HandlerFound_Any(rq) == Has(rq, "event")

\* getattr(self, 'handle_{}'.format(event_type), None) is not None
HandlerFound(rq) == Has(rq, "event") /\ rq.event \in Handlers

\* The steps of n calls of the codebase rule
CodebaseSteps(n) == [i \in 1..n |-> "codebase"]

Return(err, changes, steps) ==
    [next |-> "done", err |-> err, changes |-> changes, steps |-> steps]

\* process() and the handler it calls, up to the first point where they
\* wait for the enrichment client: service is self._github_api_service.
\* next is "done" (process() is over: err, or changes), "service" (waiting
\* for getService), or "files" (waiting for the changed-files call).
ProcessSync(c, service, rq) ==
    LET gp == GetPayload(c, rq) IN
    IF gp.err # "" THEN Return(gp.err, <<>>, gp.steps)
    ELSE IF ~HandlerFound(rq)
    THEN Return("Unknown event", <<>>, gp.steps \o <<"lookup">>)
    ELSE LET steps == gp.steps \o <<"lookup", "dispatch">> IN
         IF rq.event = "ping" THEN Return("", <<>>, steps)
         ELSE IF rq.event = "push"
         THEN LET h == HandlePush(c, gp.value, rq.event) IN
              Return(h.err, h.changes, steps \o CodebaseSteps(h.calls))
         ELSE LET st == PrStart(c, gp.value) IN
              IF st.next = "return" THEN Return(st.err, <<>>, steps)
              ELSE IF service # 0
              THEN [next |-> "files", err |-> "", changes |-> <<>>,
                    steps |-> steps \o <<"files_call">>]
              ELSE IF HasCredentials(c)
              THEN [next |-> "service", err |-> "", changes |-> <<>>,
                    steps |-> steps \o <<"getService">>]
              ELSE LET f == PrFinish(c, gp.value, rq.event, FALSE, <<>>, <<>>) IN
                   Return(f.err, f.changes, steps \o CodebaseSteps(f.calls))

\* What process() delivers: a failure, or the pair (changes, 'git')
Outcome(err, changes) ==
    IF err # "" THEN [status |-> "failed", err |-> err]
    ELSE [status |-> "ok", changes |-> changes, tag |-> "git"]

NoOutcome == [status |-> "none"]

Failure == "RemoteServiceError"

\* GitHubEventHandler(secret, strict, ...)
Construct ==
    /\ hstate = "new"
    /\ hstate' = IF CtorOk(cfg) THEN "ready" ELSE "ctor_failed"
    /\ UNCHANGED <<cfg, github_api_service, clients, pc, req, loc, out, trace>>

\* process(request), up to its first wait
Process(r, rq) ==
    /\ hstate = "ready"
    /\ pc[r] = "idle"
    /\ LET p == ProcessSync(cfg, github_api_service, rq) IN
       /\ req' = [req EXCEPT ![r] = rq]
       /\ pc' = [pc EXCEPT ![r] = p.next]
       /\ trace' = [trace EXCEPT ![r] = p.steps]
       /\ out' = [out EXCEPT ![r] = IF p.next = "done" THEN Outcome(p.err, p.changes)
                                    ELSE NoOutcome]
       /\ loc' = [loc EXCEPT ![r] = [service |-> github_api_service, files |-> <<>>,
                                     details |-> <<>>]]
    /\ UNCHANGED <<cfg, hstate, github_api_service, clients>>

\* What GithubApiService.getService can answer with: a client it has built
\* before, or a new one.  Clients are numbered from 1 in the order built.
GetService(built) == 1..(built + 1)

\* get_github_api_service, lines 340-351: getService has answered (with a
\* client, or a failure); the client is stored in self._github_api_service
\* and returned, and with it the changed-files call is issued
ServiceDone(r, ok) ==
    /\ pc[r] = "service"
    /\ IF ok
       THEN \E n \in GetService(clients) :
            /\ clients' = IF n > clients THEN n ELSE clients
            /\ github_api_service' = n
            /\ loc' = [loc EXCEPT ![r].service = n]
            /\ pc' = [pc EXCEPT ![r] = "files"]
            /\ trace' = [trace EXCEPT ![r] = @ \o <<"files_call">>]
            /\ out' = out
       ELSE /\ pc' = [pc EXCEPT ![r] = "done"]
            /\ out' = [out EXCEPT ![r] = Outcome(Failure, <<>>)]
            /\ UNCHANGED <<clients, github_api_service, loc, trace>>
    /\ UNCHANGED <<cfg, hstate, req>>

\* Mutant: when the changed-files call fails the change is built without
\* the enrichment
FilesDone_Unenriched(r, ok, files) ==
    /\ pc[r] = "files"
    /\ IF ok
       THEN /\ loc' = [loc EXCEPT ![r].files = files]
            /\ pc' = [pc EXCEPT ![r] = "details"]
            /\ trace' = [trace EXCEPT ![r] = @ \o <<"files_ok", "details_call">>]
            /\ out' = out
       ELSE /\ pc' = [pc EXCEPT ![r] = "done"]
            /\ LET f == PrFinish(cfg, GetPayload(cfg, req[r]).value, req[r].event,
                                 FALSE, <<>>, <<>>)
               IN out' = [out EXCEPT ![r] = Outcome(f.err, f.changes)]
            /\ UNCHANGED <<loc, trace>>
    /\ UNCHANGED <<cfg, hstate, github_api_service, clients, req>>

\* line 195: get_pull_request_changed_files has answered; line 196 is issued
FilesDone(r, ok, files) ==
    /\ pc[r] = "files"
    /\ IF ok
       THEN /\ loc' = [loc EXCEPT ![r].files = files]
            /\ pc' = [pc EXCEPT ![r] = "details"]
            /\ trace' = [trace EXCEPT ![r] = @ \o <<"files_ok", "details_call">>]
            /\ out' = out
       ELSE /\ pc' = [pc EXCEPT ![r] = "done"]
            /\ out' = [out EXCEPT ![r] = Outcome(Failure, <<>>)]
            /\ UNCHANGED <<loc, trace>>
    /\ UNCHANGED <<cfg, hstate, github_api_service, clients, req>>

\* line 196: get_pull_request_changes has answered; lines 197-250 run
DetailsDone(r, ok, details) ==
    /\ pc[r] = "details"
    /\ pc' = [pc EXCEPT ![r] = "done"]
    /\ IF ok
       THEN LET f == PrFinish(cfg, GetPayload(cfg, req[r]).value, req[r].event,
                              TRUE, loc[r].files, details)
            IN /\ out' = [out EXCEPT ![r] = Outcome(f.err, f.changes)]
               /\ loc' = [loc EXCEPT ![r].details = details]
               /\ trace' = [trace EXCEPT ![r] = @ \o <<"details_ok">>
                                                    \o CodebaseSteps(f.calls)]
       ELSE /\ out' = [out EXCEPT ![r] = Outcome(Failure, <<>>)]
            /\ UNCHANGED <<loc, trace>>
    /\ UNCHANGED <<cfg, hstate, github_api_service, clients, req>>

\* process() is called with one of the given requests
ProcessAny(r, requests) ==
    /\ hstate = "ready"
    /\ pc[r] = "idle"
    /\ \E rq \in requests : Process(r, rq)

\* The state before the constructor has run, for a set of configurations
InitWith(configs) ==
    /\ cfg \in configs
    /\ hstate = "new"
    /\ github_api_service = 0
    /\ clients = 0
    /\ pc = [r \in Reqs |-> "idle"]
    /\ req = [r \in Reqs |-> EmptyDict]
    /\ loc = [r \in Reqs |-> [service |-> 0, files |-> <<>>, details |-> <<>>]]
    /\ out = [r \in Reqs |-> NoOutcome]
    /\ trace = [r \in Reqs |-> <<>>]

----------------------------------------------------------------------------
(* Inputs *)

\* All sequences over S of length at most n
RECURSIVE SeqsUpTo(_, _)
SeqsUpTo(S, n) ==
    IF n = 0 THEN {<<>>}
    ELSE LET shorter == SeqsUpTo(S, n - 1) IN
         shorter \cup {Append(q, x) : q \in shorter, x \in S}

JsonText(tree, fmt) == [json |-> tree, fmt |-> fmt]
FormText(fields) == [form |-> fields]
Garbage == [garbage |-> "{"]

Author1 == [name |-> "ann", email |-> "ann@example.org"]

Commit(id, message) ==
    [timestamp |-> "2020-01-01T00:00:00Z", id |-> id, author |-> Author1,
     message |-> message, url |-> <<"url", id>>]

MsgClean == <<"fix", " ", "bug">>
MsgSkip == <<"fix", " ", "[", "skip", " ", "ci", "]">>
MsgCiSkip == <<"[", " ", "ci", "skip", "]", " ", "fix">>
MsgWip == <<"wip">>
MsgNear == <<"[", "skip", "]", " ", "ci">>

CommitClean == Commit("c1", MsgClean)
CommitSkip == Commit("c2", MsgSkip)
CommitWip ==
    Update(Commit("c3", MsgWip),
           [distinct |-> FALSE, added |-> <<"a.py">>, removed |-> <<"b.py">>])
CommitCiSkip == Commit("c4", MsgCiSkip)
CommitNear == Commit("c5", MsgNear)
\* a head commit without a message
CommitNoMsg ==
    [timestamp |-> "2020-01-01T00:00:00Z", id |-> "c6", author |-> Author1,
     url |-> <<"url", "c6">>]

Repository == [name |-> "repo", html_url |-> "https://github.com/o/repo", full_name |-> "o/repo"]

RefMain == <<"refs", "/", "heads", "/", "main">>
RefNested == <<"refs", "/", "heads", "/", "a", "/", "b">>
RefTag == <<"refs", "/", "tags", "/", "v1.0">>
RefPull == <<"refs", "/", "pull", "/", "1", "/", "merge">>
RefNoName == <<"refs", "/", "heads", "/">>
RefPrefixed == <<"x", "refs", "/", "heads", "/", "main">>

PushTree(ref, head, commits) ==
    [ref |-> ref, head_commit |-> head, commits |-> commits, repository |-> Repository]

PullRequest(sha, login) ==
    [commits |-> 2, title |-> "title", body |-> "text",
     head |-> [sha |-> sha],
     user |-> [login |-> login],
     base |-> [user |-> [login |-> "o"],
               repo |-> [name |-> "repo", full_name |-> "o/repo"]],
     created_at |-> "2020-01-01T00:00:00Z",
     _links |-> [html |-> [href |-> "https://github.com/o/repo/pull/7"]]]

PullTree(action) ==
    [number |-> "7", action |-> action, pull_request |-> PullRequest("h1", "ann"),
     repository |-> Repository]

\* What the enrichment client's calls return
Detail(sha, message, author, login) ==
    [sha |-> sha, message |-> message, author |-> author, login |-> login,
     title |-> <<" ">> \o message, body |-> <<"more", "">>]

(* Requests that exercise the signature check.  The one document holds the  *)
(* fields of a push and of a pull request, to be delivered as either event. *)

AuthTree == Update(PushTree(RefMain, CommitClean, <<CommitClean>>), PullTree("opened"))
Body1 == JsonText(AuthTree, 0)
Body1b == JsonText(AuthTree, 1)       \* the same document, formatted differently
BodyForm == FormText([payload |-> Body1])
AuthBodies == {Body1, Body1b, BodyForm, Garbage}

SigTokens ==
    {Lit("sha1"), Lit("md5"), EqTok,
     HmacHexdigest("s1", Body1), HmacHexdigest("s1", Body1b)}

Signatures == SeqsUpTo(SigTokens, MaxSigLen)

\* The headers other than the signature; a header may be missing
AuthHeaders ==
    {[ctype |-> ct, event |-> ev] :
        ct \in {CT_JSON, CT_FORM, "text/plain"},
        ev \in {"ping", "issues", "pull_request"}}
    \cup {[event |-> "ping"], [ctype |-> CT_JSON], [ctype |-> CT_JSON, event |-> "push"]}

AuthRequests ==
    {Update(Update([content |-> b], h), sg) :
        b \in AuthBodies, h \in AuthHeaders,
        sg \in {EmptyDict} \cup {[sig |-> q] : q \in Signatures}}

\* secret is None, '' or 's1'; strict is on or off; with or without a token
AuthConfigs ==
    {Update([strict |-> st], sec) :
        st \in BOOLEAN, sec \in {EmptyDict, [secret |-> ""], [secret |-> "s1"]}}
    \cup {[strict |-> st, secret |-> "s1", token |-> "tok"] : st \in BOOLEAN}

AuthFiles == {<<"a.py">>}
AuthDetails == {<<Detail("h1", MsgClean, "Ann", "ann")>>}

(* Push requests *)

\* The records that hold the field k with a value of vals, or do not hold it
OptField(k, vals) == {EmptyDict} \cup {[x \in {k} |-> v] : v \in vals}

PushRefs == {RefMain, RefNested, RefTag, RefPull, RefNoName, RefPrefixed}

\* head_commit is null in the payload of a push that deletes a ref
HeadCommits ==
    {CommitClean, CommitSkip, CommitCiSkip, CommitNear, CommitWip, CommitNoMsg, JsonNull}

ListCommits == {CommitClean, CommitSkip, CommitWip}

PushTrees ==
    {Update(Update(Update(Update(Update(f1, f2), f3), f4), f5), f6) :
        f1 \in OptField("ref", PushRefs),
        f2 \in OptField("deleted", BOOLEAN),
        f3 \in OptField("created", {TRUE}),
        f4 \in OptField("head_commit", HeadCommits),
        f5 \in OptField("commits", SeqsUpTo(ListCommits, MaxCommits)),
        f6 \in OptField("repository", {Repository})}

PushRequests ==
    {[content |-> JsonText(t, 0), ctype |-> CT_JSON, event |-> "push"] : t \in PushTrees}
    \cup {[content |-> JsonText(PushTree(RefMain, CommitClean, <<CommitClean>>), 0),
           ctype |-> ct, event |-> ev] :
              ct \in {CT_JSON, "text/plain"}, ev \in {"ping", "issues", "push"}}
    \cup {[content |-> Garbage, ctype |-> CT_JSON, event |-> "push"]}

\* No secret; the default skip patterns, one pattern of its own, or none;
\* with and without a codebase rule and white-listed properties
PushConfigs ==
    {[strict |-> FALSE],
     [strict |-> FALSE, skips |-> << <<Lit("wip")>> >>],
     [strict |-> FALSE, skips |-> <<>>],
     [strict |-> FALSE, codebase |-> [const |-> "cb"]],
     [strict |-> FALSE, codebase |-> [fn |-> "repo_name"],
      github_property_whitelist |-> {"github.ref"}]}

(* Pull-request requests *)

\* The document of a complete pull-request event, or one that lacks a field
PullTrees ==
    {PullTree(a) : a \in {"opened", "reopened", "synchronize", "closed", "edited"}}
    \cup {[number |-> "7", pull_request |-> PullRequest("h1", "ann"),
           repository |-> Repository]}
    \cup {[action |-> a, pull_request |-> PullRequest("h1", "ann"),
           repository |-> Repository] : a \in {"opened", "closed"}}
    \cup {[number |-> "7", action |-> a, pull_request |-> PullRequest("h1", "ann")] :
             a \in {"opened", "closed"}}
    \cup {[number |-> "7", action |-> a, repository |-> Repository,
           pull_request |-> [commits |-> 1, title |-> "title", body |-> "text",
                             head |-> [sha |-> "h1"]]] : a \in {"opened", "closed"}}

PullRequests ==
    {[content |-> JsonText(t, 0), ctype |-> CT_JSON, event |-> "pull_request"] :
        t \in PullTrees}

\* No credentials, a token, the three fields of an integration, or only one of them
PullConfigs ==
    {[strict |-> FALSE],
     [strict |-> FALSE, token |-> "tok"],
     [strict |-> FALSE, token |-> "tok", skips |-> << <<Lit("wip")>> >>,
      codebase |-> [const |-> "cb"], github_property_whitelist |-> {"github.title"}],
     [strict |-> FALSE, integration_id |-> "1", private_key |-> "key",
      installation_id |-> "2"],
     [strict |-> FALSE, integration_id |-> "1"]}

PullFiles == {<<>>, <<"a.py", "b.py">>}

DetailPool ==
    {Detail("h1", MsgClean, "Ann A", "ann"),
     Detail("h1", MsgSkip, "Ann A", "ann"),
     Detail("x2", MsgSkip, "Bob B", "bob"),
     Detail("x3", MsgWip, "Ann Other", "ann"),
     Detail("x4", MsgClean, "", ""),
     Detail("x5", MsgClean, None, "ann")}

\* The mappings from sha to details, in their iteration order: no sha twice
PullDetails ==
    {d \in SeqsUpTo(DetailPool, MaxDetails) :
        \A i, j \in DOMAIN d : i # j => d[i].sha # d[j].sha}

----------------------------------------------------------------------------
(* Specifications *)

\* One step of the handler: requests of the set requests arrive under the
\* identities rs; the client's calls return a value of files / details, or fail
NextWith(rs, requests, files, details) ==
    \/ Construct
    \/ \E r \in rs : ProcessAny(r, requests)
    \/ \E r \in rs, ok \in BOOLEAN : ServiceDone(r, ok)
    \/ \E r \in rs, ok \in BOOLEAN, f \in files : FilesDone(r, ok, f)
    \/ \E r \in rs, ok \in BOOLEAN, d \in details : DetailsDone(r, ok, d)

InitAuth == InitWith(AuthConfigs)
NextAuth == NextWith({1}, AuthRequests, AuthFiles, AuthDetails)
SpecAuth == InitAuth /\ [][NextAuth]_vars

InitPush == InitWith(PushConfigs)
NextPush ==
    \/ Construct
    \/ ProcessAny(1, PushRequests)
SpecPush == InitPush /\ [][NextPush]_vars

InitPull == InitWith(PullConfigs)
NextPull == NextWith({1}, PullRequests, PullFiles, PullDetails)
SpecPull == InitPull /\ [][NextPull]_vars

\* Concurrent pull-request requests on one handler that has credentials
RaceConfigs == {[strict |-> FALSE, token |-> "tok"]}
RaceRequests ==
    {[content |-> JsonText(PullTree(a), 0), ctype |-> CT_JSON, event |-> "pull_request"] :
        a \in {"opened", "closed"}}
InitRace == InitWith(RaceConfigs)
NextRace == NextWith(Reqs, RaceRequests, AuthFiles, AuthDetails)
SpecRace == InitRace /\ [][NextRace]_vars

\* Two requests on one handler without secret or credentials: the same
\* texts as a JSON body and as the payload field of a form, under every
\* content type
DecodeBodies ==
    {Body1, Body1b, Garbage,
     FormText([payload |-> Body1]), FormText([payload |-> Body1b]),
     FormText([payload |-> Garbage]), FormText([other |-> Body1])}
DecodeTypes == {CT_JSON, CT_FORM, "text/plain", "application/json; charset=utf-8"}
DecodeRequests ==
    {Update([content |-> b, event |-> ev], ct) :
        b \in DecodeBodies, ev \in {"ping", "push", "pull_request"},
        ct \in OptField("ctype", DecodeTypes)}
DecodeConfigs == {[strict |-> FALSE], [strict |-> FALSE, codebase |-> [const |-> "cb"]]}
InitDecode == InitWith(DecodeConfigs)
NextDecode ==
    \/ Construct
    \/ \E r \in {1, 2} : ProcessAny(r, DecodeRequests)
SpecDecode == InitDecode /\ [][NextDecode]_vars

\* Push and pull-request events on a handler without secret or
\* credentials, with white-listed properties and codebase rules; the
\* payloads may hold fields named as the properties the handler computes
ExtraFields ==
    {Update(f1, f2) : f1 \in OptField("event", {"deployment"}),
                      f2 \in OptField("github_distinct", {FALSE})}
PropTrees ==
    {Update(Update(PushTree(ref, CommitClean, cs), x), cr) :
        ref \in {RefMain, RefTag},
        cs \in SeqsUpTo({CommitClean, CommitWip}, MaxCommits),
        x \in ExtraFields, cr \in OptField("created", {TRUE})}
    \cup {[PullTree(a) EXCEPT !.pull_request = Update(@, x)] :
             a \in {"opened", "closed"}, x \in ExtraFields}
PropRequests ==
    {[content |-> JsonText(t, 0), ctype |-> CT_JSON, event |-> ev] :
        t \in PropTrees, ev \in {"push", "pull_request"}}
PropConfigs ==
    {[strict |-> FALSE],
     [strict |-> FALSE, github_property_whitelist |-> {"event"}],
     [strict |-> FALSE,
      github_property_whitelist |-> {"github_distinct", "github.ref", "github.title"}],
     [strict |-> FALSE, codebase |-> [const |-> "cb"],
      github_property_whitelist |-> {"event", "github_distinct", "github.number"}],
     [strict |-> FALSE, codebase |-> [fn |-> "repo_name"]]}
InitProps == InitWith(PropConfigs)
NextProps ==
    \/ Construct
    \/ ProcessAny(1, PropRequests)
SpecProps == InitProps /\ [][NextProps]_vars

----------------------------------------------------------------------------
(* Properties: request authentication and dispatch *)

Started(r) == pc[r] # "idle"

Steps(r) == {trace[r][i] : i \in DOMAIN trace[r]}

\* The request went past the signature check
Verified(r) == "decode" \in Steps(r)

\* The header is 'sha1=' followed by the HMAC-SHA1 hex digest of the raw
\* body under the configured secret
ValidSignature(c, rq) ==
    /\ Has(c, "secret") /\ Has(rq, "sig")
    /\ rq.sig = <<Lit("sha1"), EqTok, HmacHexdigest(c.secret, rq.content)>>

EqPositions(sig) == {i \in DOMAIN sig : sig[i] = EqTok}

AuthFailure(r) ==
    /\ pc[r] = "done"
    /\ out[r].status = "failed"
    /\ out[r].err \in AuthErrors

\* C1: on a handler in strict mode a request gets past authentication only
\* if its signature header is 'sha1=' + HMAC-SHA1(secret, raw body); a
\* request without a signature fails authentication; and no handler with
\* strict on and no secret is ever constructed.
C1_StrictNeedsValidSignature ==
    /\ (cfg.strict /\ ~SecretSet(cfg)) => hstate # "ready"
    /\ \A r \in Reqs : (cfg.strict /\ Started(r)) =>
          /\ (Verified(r) \/ out[r].status # "failed") => ValidSignature(cfg, req[r])
          /\ ~SignatureSet(req[r]) =>
                out[r] = [status |-> "failed", err |-> "Request has no required signature"]

C1_Witness ==
    /\ cfg.strict /\ pc[1] = "done" /\ out[1].status = "ok"
    /\ ValidSignature(cfg, req[1])

\* What C2 says of request r: the check succeeds exactly when the header is
\* 'sha1=<digest>' with the digest of the raw body under the secret;
\* otherwise it fails with an authentication error: the format error when
\* the header does not have exactly one '=', the hash-type error when the
\* algorithm is not sha1, the mismatch error when the digest differs, in
\* particular when it is the digest of another body.
SignatureChecked(r) ==
    LET sig == req[r].sig
        eqs == EqPositions(sig)
    IN /\ Verified(r) <=> ValidSignature(cfg, req[r])
       /\ ~Verified(r) => AuthFailure(r)
       /\ Cardinality(eqs) # 1 => out[r].err = "Wrong signature format"
       /\ Cardinality(eqs) = 1 =>
            LET i == CHOOSE j \in eqs : TRUE
                alg == SubSeq(sig, 1, i - 1)
                digest == SubSeq(sig, i + 1, Len(sig))
            IN /\ alg # <<Lit("sha1")>> => out[r].err = "Unknown hash type"
               /\ (alg = <<Lit("sha1")>>
                   /\ digest # <<HmacHexdigest(cfg.secret, req[r].content)>>)
                    => out[r].err = "Hash mismatch"
       /\ \A b \in AuthBodies :
            (b # req[r].content
             /\ sig = <<Lit("sha1"), EqTok, HmacHexdigest(cfg.secret, b)>>)
                => out[r].err = "Hash mismatch"

\* C2 as stated: whenever a secret is configured and the request carries a
\* signature header, the header is checked as described above.
C2_SignatureCheckedWhenPresent ==
    \A r \in Reqs : (Started(r) /\ SecretSet(cfg) /\ Has(req[r], "sig")) =>
        SignatureChecked(r)

\* C2, amended: whenever a secret is configured and the request carries a
\* signature header that is not empty, the header is checked as described
\* above; a header with an empty value counts as no signature (the request
\* passes unchecked unless strict mode is on).
C2_SignatureCheck ==
    \A r \in Reqs : (Started(r) /\ SecretSet(cfg) /\ Has(req[r], "sig")) =>
        IF req[r].sig # <<>>
        THEN SignatureChecked(r)
        ELSE /\ Verified(r) <=> ~cfg.strict
             /\ ~Verified(r) =>
                   out[r] = [status |-> "failed", err |-> "Request has no required signature"]

C2_Witness ==
    /\ pc[1] = "done" /\ SecretSet(cfg)
    /\ req[1].content = Body1b
    /\ Has(req[1], "sig")
    /\ req[1].sig = <<Lit("sha1"), EqTok, HmacHexdigest(cfg.secret, Body1)>>
    /\ out[1] = [status |-> "failed", err |-> "Hash mismatch"]

\* C3 as stated: a request without a signature gets past the check only if
\* strict mode is off and no secret is configured.
C3_UnsignedNeedsNoSecret ==
    \A r \in Reqs : (Started(r) /\ ~SignatureSet(req[r]) /\ Verified(r)) =>
        (~cfg.strict /\ ~SecretSet(cfg))

\* C3, amended: a request without a signature gets past the check exactly
\* when strict mode is off, whether or not a secret is configured.
C3_UnsignedPassesIffNotStrict ==
    \A r \in Reqs : (Started(r) /\ ~SignatureSet(req[r])) =>
        /\ Verified(r) <=> ~cfg.strict
        /\ ~Verified(r) => AuthFailure(r)

C3_Witness ==
    /\ Started(1) /\ ~Has(req[1], "sig")
    /\ SecretSet(cfg) /\ ~cfg.strict
    /\ Verified(1)

\* The requests the signature check has to turn away
ShouldReject(c, rq) ==
    \/ ~SignatureSet(rq) /\ c.strict
    \/ SecretSet(c) /\ SignatureSet(rq) /\ ~ValidSignature(c, rq)

StepOrder == <<"read", "verify", "decode", "lookup", "dispatch">>

IsPrefix(p, q) == Len(p) <= Len(q) /\ SubSeq(q, 1, Len(p)) = p

\* C4: the steps of process() occur in the order read, verify, decode,
\* look up the handler, dispatch; and a request whose signature check fails
\* ends in the authentication failure with nothing decoded, no handler
\* looked up or run, and no enrichment client built or called.
C4_VerifyBeforeDecode ==
    \A r \in Reqs : Started(r) =>
        /\ IsPrefix(trace[r], StepOrder) \/ IsPrefix(StepOrder, trace[r])
        /\ ShouldReject(cfg, req[r]) =>
              /\ AuthFailure(r)
              /\ trace[r] = <<"read", "verify">>
              /\ clients = 0 /\ github_api_service = 0

C4_Witness ==
    /\ Started(1) /\ ShouldReject(cfg, req[1])
    /\ HasCredentials(cfg)
    /\ Has(req[1], "event") /\ req[1].event = "issues"
    /\ Has(req[1], "ctype") /\ req[1].ctype = "text/plain"
    /\ req[1].content = Garbage
    /\ AuthFailure(1)

\* The payload of the request can be decoded
Decodes(rq) ==
    /\ Has(rq, "ctype")
    /\ \/ rq.ctype = CT_JSON /\ Has(rq.content, "json")
       \/ /\ rq.ctype = CT_FORM /\ Has(rq.content, "form")
          /\ Has(rq.content.form, "payload") /\ Has(rq.content.form.payload, "json")

UnknownEvent(rq) == Has(rq, "event") /\ rq.event \notin {"ping", "push", "pull_request"}

\* C5 as stated: a request naming an event without a handler always fails
\* with the unknown-event error, and a ping event succeeds with no changes.
C5_UnknownEventError ==
    \A r \in Reqs : Started(r) =>
        /\ UnknownEvent(req[r]) => out[r] = [status |-> "failed", err |-> "Unknown event"]
        /\ (Has(req[r], "event") /\ req[r].event = "ping") =>
              out[r] = [status |-> "ok", changes |-> <<>>, tag |-> "git"]

\* C5, amended: a request naming an event without a handler always fails
\* and never returns a change list; the failure is the unknown-event error
\* whenever the request passes the signature check and its payload decodes
\* (otherwise it is the failure of that earlier step); a ping event that
\* passes both succeeds with no changes.
C5_UnknownEventFails ==
    \A r \in Reqs : Started(r) =>
        LET passes == ~ShouldReject(cfg, req[r]) /\ Decodes(req[r]) IN
        /\ UnknownEvent(req[r]) =>
              /\ pc[r] = "done" /\ out[r].status = "failed"
              /\ passes => out[r].err = "Unknown event"
              /\ ~passes => out[r].err # "Unknown event"
        /\ (Has(req[r], "event") /\ req[r].event = "ping" /\ passes) =>
              out[r] = [status |-> "ok", changes |-> <<>>, tag |-> "git"]

C5_Witness ==
    /\ pc[1] = "done" /\ UnknownEvent(req[1])
    /\ ~ShouldReject(cfg, req[1]) /\ Decodes(req[1])
    /\ out[1] = [status |-> "failed", err |-> "Unknown event"]

----------------------------------------------------------------------------
(* Properties: push events *)

\* The payload a request delivers, when it decodes
PayloadOf(rq) ==
    IF rq.ctype = CT_JSON THEN rq.content.json ELSE rq.content.form.payload.json

\* Request r was accepted and handed to the handler of event ev
Dispatched(r, ev) ==
    /\ Started(r)
    /\ Has(req[r], "event") /\ req[r].event = ev
    /\ ~ShouldReject(cfg, req[r]) /\ Decodes(req[r])

\* The payload holds what handle_push reads before it looks at the commits
PushFieldsPresent(p) ==
    /\ Has(p, "ref")
    /\ Has(p, "repository")
    /\ {"name", "html_url", "full_name"} \subseteq DOMAIN p.repository

\* refs/heads/<name> or refs/tags/<name>, the name not empty
RefAccepted(ref) ==
    /\ Len(ref) > 4
    /\ \E k \in {"heads", "tags"} : SubSeq(ref, 1, 4) = <<"refs", "/", k, "/">>

RefName(ref) == [i \in 1..(Len(ref) - 4) |-> ref[i + 4]]

Flag(p, k) == Has(p, k) /\ p[k]

\* The messages of the inputs that hold a marker of the configured patterns
SkipMarked(c, msg) ==
    IF ~Has(c, "skips") THEN msg \in {MsgSkip, MsgCiSkip}
    ELSE IF c.skips = <<>> THEN FALSE
    ELSE msg = MsgWip

HeadSkipped(c, p) ==
    /\ Has(p, "head_commit") /\ Has(p.head_commit, "message")
    /\ SkipMarked(c, p.head_commit.message)

EmptySuccess == [status |-> "ok", changes |-> <<>>, tag |-> "git"]

\* The requests process() cannot serve
MustFail(c, rq) ==
    \/ ShouldReject(c, rq)
    \/ ~Decodes(rq)
    \/ ~Has(rq, "event")
    \/ rq.event \notin {"ping", "push", "pull_request"}
    \/ rq.event = "push" /\ ~PushFieldsPresent(PayloadOf(rq))

\* C6: a push whose ref is neither refs/heads/<branch> nor refs/tags/<name>,
\* or that is marked deleted, or whose head commit message holds a skip
\* marker, ends successfully with the empty change list tagged 'git'; and a
\* request process() cannot serve ends in a failure, never in a change list.
C6_EmptySuccessNotFailure ==
    \A r \in Reqs :
        /\ (Dispatched(r, "push") /\ PushFieldsPresent(PayloadOf(req[r]))) =>
              LET p == PayloadOf(req[r]) IN
              (\/ ~RefAccepted(p.ref)
               \/ Flag(p, "deleted")
               \/ HeadSkipped(cfg, p))
                 => (pc[r] = "done" /\ out[r] = EmptySuccess)
        /\ (Started(r) /\ MustFail(cfg, req[r])) =>
              (pc[r] = "done" /\ out[r].status = "failed")

C6_Witness ==
    /\ Dispatched(1, "push")
    /\ LET p == PayloadOf(req[1]) IN
          /\ PushFieldsPresent(p) /\ RefAccepted(p.ref) /\ ~Flag(p, "deleted")
          /\ HeadSkipped(cfg, p) /\ p.head_commit.message = MsgCiSkip
          /\ Has(p, "commits") /\ Len(p.commits) > 0
    /\ out[1] = EmptySuccess

\* A push that reaches the skip test with a head commit and a commit list
\* (lines 280 and 283 read both)
ReachesSkipTest(r) ==
    /\ Dispatched(r, "push")
    /\ LET p == PayloadOf(req[r]) IN
          /\ PushFieldsPresent(p) /\ RefAccepted(p.ref) /\ ~Flag(p, "deleted")
          /\ Has(p, "head_commit") /\ p.head_commit # JsonNull
          /\ Has(p, "commits")

\* Commit i of the payload's list has its change record in the output
HasRecord(r, commit) ==
    /\ out[r].status = "ok"
    /\ \E j \in DOMAIN out[r].changes :
          /\ out[r].changes[j].revision = commit.id
          /\ out[r].changes[j].comments = commit.message

\* C7 as stated: the skip test looks at the head commit's message only: if
\* it matches, the push yields no change record; if it does not, a commit of
\* the list whose message holds a skip marker still yields its change record.
C7_SkipHeadOnly ==
    \A r \in Reqs : ReachesSkipTest(r) =>
        LET p == PayloadOf(req[r]) IN
        /\ HeadSkipped(cfg, p) => out[r] = EmptySuccess
        /\ (~HeadSkipped(cfg, p) /\ CommitKeys \subseteq DOMAIN p.head_commit) =>
              \A i \in DOMAIN p.commits :
                  SkipMarked(cfg, p.commits[i].message) => HasRecord(r, p.commits[i])

\* C7, amended: the same, for a push that is not marked newly created (on a
\* newly created push the commit list yields no records at all, see C9).
C7_SkipHeadOnlyUnlessCreated ==
    \A r \in Reqs : ReachesSkipTest(r) =>
        LET p == PayloadOf(req[r]) IN
        /\ HeadSkipped(cfg, p) => out[r] = EmptySuccess
        /\ (~HeadSkipped(cfg, p) /\ ~Flag(p, "created")) =>
              /\ out[r].status = "ok"
              /\ Len(out[r].changes) = Len(p.commits)
              /\ \A i \in DOMAIN p.commits : HasRecord(r, p.commits[i])

C7_Witness ==
    /\ ReachesSkipTest(1)
    /\ LET p == PayloadOf(req[1]) IN
          /\ ~HeadSkipped(cfg, p) /\ ~Flag(p, "created")
          /\ p.head_commit = CommitClean
          /\ p.commits = <<CommitSkip, CommitClean>>
          /\ HasRecord(1, CommitSkip)
    /\ ~Has(cfg, "skips")

\* C8: a push to refs/heads/<b> or refs/tags/<t>, not deleted, not newly
\* created, its head commit not skipped, yields one change record per commit
\* of the list, in the list's order: the i-th record has the i-th commit's
\* id as revision and the ref's name part as branch; the category of every
\* record is None under heads and 'tag' under tags.
C8_OneChangePerCommit ==
    \A r \in Reqs :
        (ReachesSkipTest(r)
         /\ ~HeadSkipped(cfg, PayloadOf(req[r]))
         /\ ~Flag(PayloadOf(req[r]), "created")) =>
            LET p == PayloadOf(req[r]) IN
            /\ pc[r] = "done" /\ out[r].status = "ok" /\ out[r].tag = "git"
            /\ Len(out[r].changes) = Len(p.commits)
            /\ \A i \in DOMAIN p.commits :
                  /\ out[r].changes[i].revision = p.commits[i].id
                  /\ out[r].changes[i].branch = RefName(p.ref)
                  /\ out[r].changes[i].category =
                        (IF p.ref[3] = "heads" THEN NoCategory ELSE "tag")

C8_Witness ==
    /\ ReachesSkipTest(1)
    /\ LET p == PayloadOf(req[1]) IN
          /\ p.ref = RefTag /\ ~Flag(p, "created")
          /\ p.commits = <<CommitWip, CommitClean>>
    /\ out[1].status = "ok"
    /\ Len(out[1].changes) = 2
    /\ out[1].changes[1].category = "tag"
    /\ out[1].changes[1].revision = "c3"

\* C9: a push marked newly created (not deleted, its head commit complete
\* and not skipped) yields exactly one change record, whose revision is the
\* head commit's id, however many commits the list holds, zero included.
C9_CreatedOnlyHead ==
    \A r \in Reqs :
        (ReachesSkipTest(r)
         /\ Flag(PayloadOf(req[r]), "created")
         /\ CommitKeys \subseteq DOMAIN PayloadOf(req[r]).head_commit
         /\ ~HeadSkipped(cfg, PayloadOf(req[r]))) =>
            LET p == PayloadOf(req[r]) IN
            /\ pc[r] = "done" /\ out[r].status = "ok"
            /\ Len(out[r].changes) = 1
            /\ out[r].changes[1].revision = p.head_commit.id

C9_Witness ==
    /\ ReachesSkipTest(1)
    /\ LET p == PayloadOf(req[1]) IN
          /\ Flag(p, "created") /\ p.commits = <<CommitWip, CommitWip>>
          /\ p.head_commit = CommitClean
    /\ out[1].status = "ok"
    /\ Len(out[1].changes) = 1
    /\ out[1].changes[1].revision = "c1"

----------------------------------------------------------------------------
(* Properties: pull-request events *)

\* The payload holds what handle_pull_request reads before it looks at the action
PrFieldsPresent(p) ==
    /\ Has(p, "number") /\ Has(p, "pull_request")
    /\ {"commits", "title", "body", "head"} \subseteq DOMAIN p.pull_request
    /\ Has(p.pull_request.head, "sha")

\* C10: a pull-request event yields at most one change record, and ends
\* successfully with the empty change list tagged 'git' whenever its action
\* is not 'opened', 'reopened' or 'synchronize', a missing action included.
C10_PullRequestActions ==
    \A r \in Reqs : Dispatched(r, "pull_request") =>
        LET p == PayloadOf(req[r]) IN
        /\ out[r].status = "ok" => Len(out[r].changes) <= 1
        /\ (PrFieldsPresent(p)
            /\ (~Has(p, "action") \/ p.action \notin {"opened", "reopened", "synchronize"}))
              => (pc[r] = "done" /\ out[r] = EmptySuccess
                  /\ trace[r] = StepOrder)

C10_Witness ==
    /\ Dispatched(1, "pull_request")
    /\ PrFieldsPresent(PayloadOf(req[1]))
    /\ ~Has(PayloadOf(req[1]), "action")
    /\ HasCredentials(cfg)
    /\ out[1] = EmptySuccess

----------------------------------------------------------------------------
(* Properties: pull-request enrichment *)

\* No token, and not all three fields of an integration
NoCredentials(c) ==
    /\ ~Has(c, "token")
    /\ ~({"integration_id", "private_key", "installation_id"} \subseteq DOMAIN c)

\* Request r is a complete pull-request event to act on, accepted and
\* handed to handle_pull_request
PrToActOn(r) ==
    /\ Dispatched(r, "pull_request")
    /\ PayloadOf(req[r]) \in {PullTree(a) : a \in {"opened", "reopened", "synchronize"}}

\* C11: on a handler without enrichment credentials (no token and not all
\* three of integration id, private key and installation id) no client is
\* ever constructed, get_github_api_service hands out the absent value and
\* no request fails in it, and a pull-request event with action opened,
\* reopened or synchronize yields exactly one change record, which has no
\* 'files' field and no 'owners' property, the category 'pull', the branch
\* 'refs/pull/<number>/merge' and the PR user's login as author.
C11_NoCredentialsNoEnrichment ==
    NoCredentials(cfg) =>
        /\ clients = 0 /\ github_api_service = 0
        /\ \A r \in Reqs :
              /\ Steps(r) \cap {"getService", "files_call", "details_call"} = {}
              /\ loc[r].service = 0
              /\ out[r] # [status |-> "failed", err |-> Failure]
              /\ PrToActOn(r) =>
                    LET p == PayloadOf(req[r]) IN
                    /\ pc[r] = "done" /\ out[r].status = "ok" /\ out[r].tag = "git"
                    /\ Len(out[r].changes) = 1
                    /\ LET ch == out[r].changes[1] IN
                          /\ ~Has(ch, "files")
                          /\ ~Has(ch.properties, "owners")
                          /\ ch.category = "pull"
                          /\ ch.branch = <<"refs", "/", "pull", "/", p.number, "/", "merge">>
                          /\ ch.author = p.pull_request.user.login

C11_Witness ==
    /\ NoCredentials(cfg) /\ Has(cfg, "integration_id")
    /\ PrToActOn(1)
    /\ PayloadOf(req[1]).action = "synchronize"
    /\ pc[1] = "done" /\ out[1].status = "ok"
    /\ Len(out[1].changes) = 1
    /\ out[1].changes[1].author = "ann"

\* Request r is a complete pull-request event to act on, and both calls of
\* the enrichment client have answered: lines 197-250 have run on
\* loc[r].files and loc[r].details
PrEnriched(r) == PrToActOn(r) /\ "details_ok" \in Steps(r)

\* The positions of the details whose entry is the head commit's and holds
\* a skip marker
HeadSkipEntries(r) ==
    LET d == loc[r].details IN
    {i \in DOMAIN d :
        /\ d[i].sha = PayloadOf(req[r]).pull_request.head.sha
        /\ SkipMarked(cfg, d[i].message)}

\* C12: with an enrichment client, a pull request whose commit details
\* hold an entry for the head sha with a skip marker in its message yields
\* no change record (the empty success), although the changed-files call
\* has succeeded and wherever the entry stands in the mapping's order; a
\* skip marker in the message of any other commit suppresses nothing: the
\* pull request yields its record.
C12_SkipOnHeadDetails ==
    \A r \in Reqs : PrEnriched(r) =>
        /\ "files_ok" \in Steps(r)
        /\ pc[r] = "done"
        /\ HeadSkipEntries(r) # {} => out[r] = EmptySuccess
        /\ HeadSkipEntries(r) = {} =>
              (out[r].status = "ok" /\ Len(out[r].changes) = 1)

\* The head commit's entry, with a skip marker, comes second
C12_Witness ==
    /\ PrEnriched(1)
    /\ Len(loc[1].details) = 2
    /\ HeadSkipEntries(1) = {2}
    /\ loc[1].files # <<>>
    /\ out[1] = EmptySuccess

\* Only a commit that is not the head holds a skip marker
C12_WitnessOtherCommit ==
    /\ PrEnriched(1)
    /\ HeadSkipEntries(1) = {}
    /\ \E i \in DOMAIN loc[1].details : SkipMarked(cfg, loc[1].details[i].message)
    /\ out[1].status = "ok" /\ Len(out[1].changes) = 1

\* How many times step x occurs in the steps of request r
Count(r, x) == Cardinality({i \in DOMAIN trace[r] : trace[r][i] = x})

\* C13: on a handler with credentials, a pull-request event to act on
\* yields a change record only once the changed-files call and the
\* commit-details call have both answered successfully; when the client
\* cannot be had or one of the two calls fails, process() fails with that
\* failure and delivers no record; nothing is delivered while a call is
\* pending; and each call is issued at most once per request.
C13_EnrichmentAllOrNothing ==
    \A r \in Reqs : (PrToActOn(r) /\ ~NoCredentials(cfg)) =>
        /\ Count(r, "files_call") <= 1 /\ Count(r, "details_call") <= 1
        /\ Count(r, "getService") <= 1
        /\ pc[r] # "done" => out[r] = NoOutcome
        /\ (out[r].status = "ok" /\ out[r].changes # <<>>) =>
              /\ pc[r] = "done"
              /\ {"files_ok", "details_ok"} \subseteq Steps(r)
              /\ Has(out[r].changes[1], "files")
              /\ out[r].changes[1].files = loc[r].files
        /\ (pc[r] = "done" /\ "details_ok" \notin Steps(r)) =>
              out[r] = [status |-> "failed", err |-> Failure]

\* The commit-details call fails after the changed-files call succeeded
C13_Witness ==
    /\ PrToActOn(1) /\ ~NoCredentials(cfg)
    /\ pc[1] = "done"
    /\ {"files_ok", "details_call"} \subseteq Steps(1)
    /\ "details_ok" \notin Steps(1)
    /\ loc[1].files # <<>>
    /\ out[1] = [status |-> "failed", err |-> Failure]

----------------------------------------------------------------------------
(* Properties: the memoized enrichment client *)

\* Request r has been handed a client by get_github_api_service
Handed(r) == loc[r].service # 0

\* C14: for every interleaving of concurrent pull-request requests on one
\* handler whose client is not constructed yet, the memoized reference
\* converges to one instance: every caller of get_github_api_service is
\* handed the same client, and the handler's reference, once set, is never
\* replaced by a different client (so it is the client every caller holds).
C14_OneClient ==
    \A r1 \in Reqs :
        Handed(r1) =>
            /\ loc[r1].service = github_api_service
            /\ \A r2 \in Reqs : Handed(r2) => loc[r2].service = loc[r1].service

\* Two requests found the reference unset and each got a client of its own
C14_Diverged ==
    /\ Handed(1) /\ Handed(2)
    /\ loc[1].service # loc[2].service
    /\ clients = 2

----------------------------------------------------------------------------
(* Properties: payload decoding *)

\* Request rf is declared form-encoded and its 'payload' field holds the
\* text that is the body of request rj, declared JSON; both are deliveries
\* of the same event
SameText(rf, rj) ==
    /\ Has(rf, "ctype") /\ rf.ctype = "application/x-www-form-urlencoded"
    /\ Has(rj, "ctype") /\ rj.ctype = "application/json"
    /\ Has(rf.content, "form") /\ Has(rf.content.form, "payload")
    /\ rf.content.form.payload = rj.content
    /\ rf.event = rj.event

\* C15: a request declared application/x-www-form-urlencoded whose
\* 'payload' field holds the text T ends as the request declared
\* application/json whose body is T ends (no secret is set, so that no
\* signature is checked); a request with any other content type, or with
\* none, fails with the unknown-content-type error and yields no changes.
C15_DecodeByContentType ==
    /\ \A r1, r2 \in Reqs :
          (pc[r1] = "done" /\ pc[r2] = "done" /\ SameText(req[r1], req[r2])) =>
              out[r1] = out[r2]
    /\ \A r \in Reqs :
          (Started(r)
           /\ (Has(req[r], "ctype") =>
                  req[r].ctype \notin {"application/json",
                                       "application/x-www-form-urlencoded"})) =>
              (pc[r] = "done"
               /\ out[r] = [status |-> "failed", err |-> "Unknown content type"])

C15_Witness ==
    /\ pc[1] = "done" /\ pc[2] = "done"
    /\ SameText(req[1], req[2])
    /\ req[2].content = Body1b /\ req[2].event = "pull_request"
    /\ out[1].status = "ok" /\ Len(out[1].changes) = 1
    /\ out[1] = out[2]

\* A request without a content type fails
C15_WitnessNoType ==
    /\ Started(1) /\ ~Has(req[1], "ctype") /\ req[1].content = Body1
    /\ out[1] = [status |-> "failed", err |-> "Unknown content type"]

----------------------------------------------------------------------------
(* Properties: author, owners and properties of a change *)

\* Request r is an enriched pull-request event that has yielded its record
PrRecord(r) ==
    /\ PrEnriched(r)
    /\ out[r].status = "ok" /\ Len(out[r].changes) = 1

\* The positions of the details whose login is the PR user's
Matching(r) ==
    LET d == loc[r].details IN
    {i \in DOMAIN d :
        /\ d[i].login # "" /\ d[i].login # None
        /\ d[i].login = PayloadOf(req[r]).pull_request.user.login}

Min(S) == CHOOSE i \in S : \A j \in S : i <= j
Max(S) == CHOOSE i \in S : \A j \in S : j <= i

\* The matching positions whose commit has an author
Asserting(r) == {i \in Matching(r) : loc[r].details[i].author # None}

\* C16: the author of a pull-request change record is the author of the
\* first commit, in the order of the details, whose login is the PR user's
\* login and that asserts an author (a later matching commit does not
\* replace an author already chosen); when no commit asserts one, it is the
\* PR user's login; the author of a record is never absent.
C16_FirstMatchingAuthor ==
    \A r \in Reqs : PrRecord(r) =>
        LET d == loc[r].details
            login == PayloadOf(req[r]).pull_request.user.login
            author == out[r].changes[1].author
        IN /\ author # None
           /\ author = (IF Asserting(r) # {} THEN d[Min(Asserting(r))].author
                        ELSE login)

\* Two commits carry the PR user's login, and the record has the author of
\* the second
C16_LaterAuthorWins ==
    /\ PrRecord(1)
    /\ Matching(1) = {1, 2}
    /\ loc[1].details[1].author = "Ann A"
    /\ loc[1].details[2].author = "Ann Other"
    /\ out[1].changes[1].author = "Ann Other"

\* What the loop does: the last matching commit decides
C16_LastMatchingAuthor ==
    \A r \in Reqs : PrRecord(r) =>
        LET d == loc[r].details
            login == PayloadOf(req[r]).pull_request.user.login
            author == out[r].changes[1].author
        IN /\ author # None
           /\ author = (IF Matching(r) # {} /\ d[Max(Matching(r))].author # None
                        THEN d[Max(Matching(r))].author
                        ELSE login)

\* The authors of the details of request r, the empty ones left out
Authors(r) ==
    {loc[r].details[i].author : i \in DOMAIN loc[r].details} \ {"", None}

\* C17: an emitted pull-request record has the property 'owners' exactly
\* when the details hold an entry with a non-empty author, and its value
\* then holds the distinct non-empty authors of all entries, each once.
C17_Owners ==
    \A r \in Reqs : PrRecord(r) =>
        LET props == out[r].changes[1].properties IN
        /\ Has(props, "owners") <=> Authors(r) # {}
        /\ Has(props, "owners") => props.owners = Authors(r)

C17_Witness ==
    /\ PrRecord(1)
    /\ Len(loc[1].details) = 2
    /\ loc[1].details[1].author = ""
    /\ loc[1].details[2].author = "Bob B"
    /\ out[1].changes[1].properties.owners = {"Bob B"}

\* No entry has an author: no property
C17_WitnessNone ==
    /\ PrRecord(1)
    /\ Len(loc[1].details) = 2 /\ Authors(1) = {}
    /\ ~Has(out[1].changes[1].properties, "owners")

\* The change records request r has yielded
Records(r) == IF out[r].status = "ok" THEN out[r].changes ELSE <<>>

\* The property name is white-listed and the object holds a field of that name
Copied(c, obj, name) ==
    /\ Has(c, "github_property_whitelist") /\ name \in c.github_property_whitelist
    /\ Has(obj, name)

\* C18 as stated: in every change record of a push or pull-request event
\* the property 'event' holds the name of the event, whatever the
\* white-listed properties hold.
C18_EventAlways ==
    \A r \in Reqs : \A i \in DOMAIN Records(r) :
        LET props == Records(r)[i].properties IN
        Has(props, "event") /\ props.event = req[r].event

\* C18, amended: every change record has the property 'event'; in a
\* pull-request record it holds the name of the event whatever the
\* white-listed properties hold; in a push record it holds the name of the
\* event unless the white-listed properties hold a key 'event' themselves,
\* whose value then stands in its place.
C18_EventUnlessWhitelisted ==
    \A r \in Reqs : \A i \in DOMAIN Records(r) :
        LET props == Records(r)[i].properties
            p == PayloadOf(req[r])
        IN /\ Has(props, "event")
           /\ req[r].event = "pull_request" => props.event = "pull_request"
           /\ req[r].event = "push" =>
                 props.event = (IF Copied(cfg, p, "event") THEN p.event ELSE "push")

\* A pull request whose white-listed properties hold 'event'
C18_Witness ==
    /\ Len(Records(1)) = 1
    /\ req[1].event = "pull_request"
    /\ Copied(cfg, PayloadOf(req[1]).pull_request, "event")
    /\ PayloadOf(req[1]).pull_request.event = "deployment"
    /\ Records(1)[1].properties.event = "pull_request"

\* A push whose white-listed properties hold 'event'
C18_WitnessPush ==
    /\ Len(Records(1)) = 2
    /\ req[1].event = "push"
    /\ Copied(cfg, PayloadOf(req[1]), "event")
    /\ Records(1)[2].properties.event = "deployment"

\* The commit the i-th record of a push stands for
SourceCommit(p, i) == IF Flag(p, "created") THEN p.head_commit ELSE p.commits[i]

\* C19: the properties of every push record are the computed ones,
\* github_distinct (the commit's 'distinct', true when the commit has no
\* such field) and event, overlaid by the white-listed ones: a key of the
\* white-listed properties has their value, whether computed too or not,
\* every other computed key has the computed value, and there is no other key.
C19_PushProperties ==
    \A r \in Reqs : Dispatched(r, "push") =>
        \A i \in DOMAIN Records(r) :
            LET p == PayloadOf(req[r])
                w == ExtractProperties(cfg, p)
                commit == SourceCommit(p, i)
                props == Records(r)[i].properties
            IN /\ DOMAIN props = DOMAIN w \cup {"github_distinct", "event"}
               /\ \A k \in DOMAIN w : props[k] = w[k]
               /\ "event" \notin DOMAIN w => props.event = "push"
               /\ "github_distinct" \notin DOMAIN w =>
                     props.github_distinct =
                        (IF Has(commit, "distinct") THEN commit.distinct ELSE TRUE)

\* Both computed keys are white-listed too, next to a third one
C19_Witness ==
    /\ Dispatched(1, "push") /\ Len(Records(1)) = 2
    /\ LET p == PayloadOf(req[1]) IN
          /\ p.commits = <<CommitWip, CommitClean>>
          /\ DOMAIN ExtractProperties(cfg, p) = {"github_distinct", "event"}
          /\ Records(1)[2].properties = [github_distinct |-> FALSE, event |-> "deployment"]

\* No collision: the commit without 'distinct' gets true
C19_WitnessDefault ==
    /\ Dispatched(1, "push") /\ Len(Records(1)) = 2
    /\ LET p == PayloadOf(req[1]) IN
          /\ p.commits = <<CommitWip, CommitClean>>
          /\ DOMAIN ExtractProperties(cfg, p) = {"github.ref"}
          /\ Records(1)[1].properties.github_distinct = FALSE
          /\ Records(1)[2].properties =
                [github_distinct |-> TRUE, event |-> "push"] @@ ("github.ref" :> RefMain)

----------------------------------------------------------------------------
(* Properties: codebase *)

\* The codebase rule is a function of the payload
CallableRule(c) == Has(c, "codebase") /\ Has(c.codebase, "fn")

\* What the rule of c gives for the payload p: the constant, or the
\* repository's name under the rule that is a function
Resolved(c, p) ==
    IF Has(c.codebase, "const") THEN c.codebase.const ELSE p.repository.name

\* Every record of request r carries the codebase of the rule, and none
\* carries one when there is no rule
SameCodebase(r) ==
    \A i \in DOMAIN Records(r) :
        IF Has(cfg, "codebase")
        THEN /\ Has(Records(r)[i], "codebase")
             /\ Records(r)[i].codebase = Resolved(cfg, PayloadOf(req[r]))
        ELSE ~Has(Records(r)[i], "codebase")

C20_WitnessNoRule ==
    /\ Dispatched(1, "push") /\ ~Has(cfg, "codebase")
    /\ Len(Records(1)) = 2
    /\ ~Has(Records(1)[1], "codebase") /\ ~Has(Records(1)[2], "codebase")

====
